---------------------------- MODULE Spec2Model ----------------------------
(***************************************************************************)
(* SiteReveal: the in-process admission controller of api/generate.js      *)
(* (per-identifier sliding window + global daily cap), the generation      *)
(* proxy handler in front of it, and the site fetch handler api/fetch.js.  *)
(*                                                                         *)
(* Time is in milliseconds, as Date.now() gives it, counted from the       *)
(* instant the module was loaded (the code only compares and subtracts     *)
(* clock readings, so the origin does not matter).  The clock never runs   *)
(* backwards.  Strings the code takes apart (header values, identifiers)   *)
(* are sequences of one-character strings.                                 *)
(***************************************************************************)
EXTENDS Integers, Sequences, FiniteSets, TLC

VARIABLES
    now,          \* what Date.now() returns at this instant
    ipStore,      \* the Map ipStore: identifier -> array of timestamps
    dailyCount,   \* let dailyCount
    dailyReset,   \* let dailyReset
    last,         \* the checkRateLimit call just made at this instant, and what it returned
    admitted,     \* history: per followed identifier, when its admitted requests of the trailing window were made
    epoch,        \* history: per followed identifier, its requests since its quota last replenished
    inflight,     \* the handler invocations suspended at an await, per slot
    out,          \* the invocation that returned (or threw) in this step, with its response
    probe,        \* a function of the code applied on its own: its input, then its result
    tally,        \* history: the requests admitted since dailyReset last moved
    dayLog        \* history (daily runs): the admissions of the trailing 24 hours, per instant

limiterVars == <<now, ipStore, dailyCount, dailyReset, last, admitted, epoch>>

vars ==
    <<now, ipStore, dailyCount, dailyReset, last, admitted, epoch, inflight, out,
      probe, tally, dayLog>>

---------------------------------------------------------------------------
(* Rate limit config, generate.js lines 6-8, and the literals of the code. *)

RATE_LIMIT_MAX == 3

RATE_LIMIT_WINDOW == 60 * 60 * 1000

DAILY_GLOBAL_CAP == 100

DAY_MS == 24 * 60 * 60 * 1000

MINUTE_MS == 60000

DAILY_REASON == <<"Daily limit reached. Please try again tomorrow.">>

\* Math.ceil(x / d) for an integer x and d > 0
CeilDiv(x, d) == -((-x) \div d)

\* the template literal of the per-IP denial, piece by piece
PerIpReason(retryAfter) ==
    << "You've used your ", RATE_LIMIT_MAX,
       " free analyses for this hour. Try again in ~", retryAfter,
       " minute", (IF retryAfter # 1 THEN "s" ELSE ""), "." >>

\* ipStore.get(ip) || []
StoreGet(store, ip) == IF ip \in DOMAIN store THEN store[ip] ELSE <<>>

\* ipStore.set(ip, timestamps)
StoreSet(store, ip, timestamps) ==
    [x \in (DOMAIN store) \cup {ip} |-> IF x = ip THEN timestamps ELSE store[x]]

InWindow_Inclusive(t, nowMs) == nowMs - t <= RATE_LIMIT_WINDOW

\* the filter predicate  t => now - t < RATE_LIMIT_WINDOW
InWindow(t, nowMs) == nowMs - t < RATE_LIMIT_WINDOW

\* the array taken as it is stored
Filtered_NoPrune(store, ip, nowMs) == StoreGet(store, ip)

\* (ipStore.get(ip) || []).filter(t => now - t < RATE_LIMIT_WINDOW)
Filtered(store, ip, nowMs) ==
    SelectSeq(StoreGet(store, ip), LAMBDA t : InWindow(t, nowMs))

DayPassed_AtReset(nowMs, reset) == nowMs >= reset

DayPassed_Late(nowMs, reset) == nowMs > reset + RATE_LIMIT_WINDOW

\* if (now > dailyReset) { dailyCount = 0; dailyReset = now + 24h }
DayPassed(nowMs, reset) == nowMs > reset

CapReached_OneMore(count) == count > DAILY_GLOBAL_CAP

\* if (dailyCount >= DAILY_GLOBAL_CAP)
CapReached(count) == count >= DAILY_GLOBAL_CAP

WindowFull_Lax(timestamps) == Len(timestamps) > RATE_LIMIT_MAX

WindowFull_OneShort(timestamps) == Len(timestamps) >= RATE_LIMIT_MAX - 1

\* if (timestamps.length >= RATE_LIMIT_MAX)
WindowFull(timestamps) == Len(timestamps) >= RATE_LIMIT_MAX

RetryAfter_Floor(timestamps, nowMs) ==
    (timestamps[1] + RATE_LIMIT_WINDOW - nowMs) \div MINUTE_MS

\* Math.ceil((timestamps[0] + RATE_LIMIT_WINDOW - now) / 60000)
RetryAfter(timestamps, nowMs) ==
    CeilDiv(timestamps[1] + RATE_LIMIT_WINDOW - nowMs, MINUTE_MS)

\* the per-IP test made before the global cap test
checkRateLimit_WindowFirst(ip, nowMs, store, count, reset) ==
    LET count1 == IF DayPassed(nowMs, reset) THEN 0 ELSE count
        reset1 == IF DayPassed(nowMs, reset) THEN nowMs + DAY_MS ELSE reset
        timestamps == Filtered(store, ip, nowMs)
    IN  IF WindowFull(timestamps)
        THEN [allowed |-> FALSE,
              reason |-> PerIpReason(RetryAfter(timestamps, nowMs)),
              ipStore |-> store, dailyCount |-> count1, dailyReset |-> reset1]
        ELSE IF CapReached(count1)
        THEN [allowed |-> FALSE, reason |-> DAILY_REASON,
              ipStore |-> store, dailyCount |-> count1, dailyReset |-> reset1]
        ELSE [allowed |-> TRUE, reason |-> <<>>,
              ipStore |-> StoreSet(store, ip, Append(timestamps, nowMs)),
              dailyCount |-> count1 + 1, dailyReset |-> reset1]

\* the check made now and the record left for later, after an await
checkRateLimit_RecordDeferred(ip, nowMs, store, count, reset) ==
    LET count1 == IF DayPassed(nowMs, reset) THEN 0 ELSE count
        reset1 == IF DayPassed(nowMs, reset) THEN nowMs + DAY_MS ELSE reset
        timestamps == Filtered(store, ip, nowMs)
    IN  IF CapReached(count1)
        THEN [allowed |-> FALSE, reason |-> DAILY_REASON,
              ipStore |-> store, dailyCount |-> count1, dailyReset |-> reset1]
        ELSE IF WindowFull(timestamps)
        THEN [allowed |-> FALSE,
              reason |-> PerIpReason(RetryAfter(timestamps, nowMs)),
              ipStore |-> store, dailyCount |-> count1, dailyReset |-> reset1]
        ELSE [allowed |-> TRUE, reason |-> <<>>,
              ipStore |-> store, dailyCount |-> count1, dailyReset |-> reset1]

\* the pruned array written back before the tests
checkRateLimit_PruneFirst(ip, nowMs, store, count, reset) ==
    LET count1 == IF DayPassed(nowMs, reset) THEN 0 ELSE count
        reset1 == IF DayPassed(nowMs, reset) THEN nowMs + DAY_MS ELSE reset
        timestamps == Filtered(store, ip, nowMs)
        pruned == StoreSet(store, ip, timestamps)
    IN  IF CapReached(count1)
        THEN [allowed |-> FALSE, reason |-> DAILY_REASON,
              ipStore |-> pruned, dailyCount |-> count1, dailyReset |-> reset1]
        ELSE IF WindowFull(timestamps)
        THEN [allowed |-> FALSE,
              reason |-> PerIpReason(RetryAfter(timestamps, nowMs)),
              ipStore |-> pruned, dailyCount |-> count1, dailyReset |-> reset1]
        ELSE [allowed |-> TRUE, reason |-> <<>>,
              ipStore |-> StoreSet(store, ip, Append(timestamps, nowMs)),
              dailyCount |-> count1 + 1, dailyReset |-> reset1]

(***************************************************************************)
(* checkRateLimit(ip), run at clock reading nowMs on the state (store,     *)
(* count, reset): what it returns (allowed, reason) and the state it       *)
(* leaves.  reason is <<>> where the code returns none.                    *)
(***************************************************************************)
checkRateLimit(ip, nowMs, store, count, reset) ==
    LET count1 == IF DayPassed(nowMs, reset) THEN 0 ELSE count
        reset1 == IF DayPassed(nowMs, reset) THEN nowMs + DAY_MS ELSE reset
        timestamps == Filtered(store, ip, nowMs)
    IN  IF CapReached(count1)
        THEN [allowed |-> FALSE, reason |-> DAILY_REASON,
              ipStore |-> store, dailyCount |-> count1, dailyReset |-> reset1]
        ELSE IF WindowFull(timestamps)
        THEN [allowed |-> FALSE,
              reason |-> PerIpReason(RetryAfter(timestamps, nowMs)),
              ipStore |-> store, dailyCount |-> count1, dailyReset |-> reset1]
        ELSE [allowed |-> TRUE, reason |-> <<>>,
              ipStore |-> StoreSet(store, ip, Append(timestamps, nowMs)),
              dailyCount |-> count1 + 1, dailyReset |-> reset1]

---------------------------------------------------------------------------
(* The identifiers the model follows, and the clock readings it visits.    *)

IP_A == <<"a">>

IP_B == <<"b">>

\* the identifiers whose history is kept
Idents == {IP_A, IP_B, <<"u", "n", "k", "n", "o", "w", "n">>}

\* the identifiers that call in the runs of the admission controller alone
Callers == {IP_A, IP_B}

\* an identifier that was never seen before and is never used again
IP_FRESH == <<"f">>

NoCall == [op |-> "none"]

\* what a call observed (the state before it) and what it returned
CallRecord(ip, r, storedBefore, countBefore, resetBefore) ==
    [op |-> "call", ip |-> ip, allowed |-> r.allowed, reason |-> r.reason,
     storedBefore |-> storedBefore, countBefore |-> countBefore,
     resetBefore |-> resetBefore]

\* how many admitted requests the history keeps per identifier
GhostLen == 4

MaxMinutes == 3

\* clock readings of the sliding-window runs: the first minutes, one millisecond
\* in, and the instants around one window after the admissions made there
Instants ==
    { m * MINUTE_MS : m \in 0..MaxMinutes }
      \cup { 1, RATE_LIMIT_WINDOW - 1, RATE_LIMIT_WINDOW,
             RATE_LIMIT_WINDOW + 2 * MINUTE_MS,
             2 * RATE_LIMIT_WINDOW + 3 * MINUTE_MS }

\* clock readings of the daily-cap runs: around the window and around the reset
CapInstants ==
    { 0, MINUTE_MS, RATE_LIMIT_WINDOW, RATE_LIMIT_WINDOW + MINUTE_MS,
      DAY_MS, DAY_MS + 1, DAY_MS + RATE_LIMIT_WINDOW,
      DAY_MS + RATE_LIMIT_WINDOW + 1 }

\* clock readings of the daily runs: around the first reset and the second
DayInstants == { 0, DAY_MS, DAY_MS + 1, 2 * DAY_MS + 1, 2 * DAY_MS + 2 }

\* the log with one more admission at time t
Logged(log, t) ==
    IF log # <<>> /\ log[Len(log)].t = t
    THEN [log EXCEPT ![Len(log)].n = @ + 1]
    ELSE Append(log, [t |-> t, n |-> 1])

\* the entries of the log made after time t
LogSince(log, t) == SelectSeq(log, LAMBDA e : e.t > t)

\* admitted requests of a history that lie in the trailing window ending at nowMs
Recent(hist, nowMs) == SelectSeq(hist, LAMBDA t : nowMs - t < RATE_LIMIT_WINDOW)

Remember(hist, t) ==
    LET h == Append(hist, t)
    IN  IF Len(h) > GhostLen THEN Tail(h) ELSE h

\* the quota of an identifier has replenished when a full window has passed
\* since its most recent admitted request (or it has none)
Replenished(hist, nowMs) ==
    hist = <<>> \/ nowMs - hist[Len(hist)] >= RATE_LIMIT_WINDOW

NextEpoch(e, hist, nowMs) ==
    IF Replenished(hist, nowMs) THEN 1
    ELSE IF e > RATE_LIMIT_MAX THEN e ELSE e + 1

---------------------------------------------------------------------------
(* The generation proxy handler, generate.js lines 16-23 and 57-117.       *)

UNKNOWN == <<"u", "n", "k", "n", "o", "w", "n">>

\* a header (or socket field) that is set, and one that is undefined
Hdr(v) == [present |-> TRUE, value |-> v]

NoHdr == [present |-> FALSE, value |-> <<>>]

\* s.split(',')[0]
RECURSIVE SplitFirst(_)
SplitFirst(s) ==
    IF s = <<>> \/ Head(s) = "," THEN <<>>
    ELSE <<Head(s)>> \o SplitFirst(Tail(s))

RECURSIVE TrimStart(_)
TrimStart(s) ==
    IF s # <<>> /\ Head(s) = " " THEN TrimStart(Tail(s)) ELSE s

RECURSIVE TrimEnd(_)
TrimEnd(s) ==
    IF s # <<>> /\ s[Len(s)] = " " THEN TrimEnd(SubSeq(s, 1, Len(s) - 1)) ELSE s

\* s.trim()
Trim(s) == TrimEnd(TrimStart(s))

\* a || b on strings and undefined: the empty string and undefined are falsy
Truthy(h) == h.present /\ h.value # <<>>

\* req.headers['x-forwarded-for']?.split(',')[0].trim()
ForwardedFirst(xff) ==
    IF xff.present THEN Hdr(Trim(SplitFirst(xff.value))) ELSE NoHdr

\* x-real-ip asked before x-forwarded-for
getIP_RealIpFirst(headers) ==
    IF Truthy(headers.realIp) THEN headers.realIp.value
    ELSE IF Truthy(ForwardedFirst(headers.xff)) THEN ForwardedFirst(headers.xff).value
    ELSE IF Truthy(headers.remoteAddress) THEN headers.remoteAddress.value
    ELSE UNKNOWN

getIP(headers) ==
    IF Truthy(ForwardedFirst(headers.xff)) THEN ForwardedFirst(headers.xff).value
    ELSE IF Truthy(headers.realIp) THEN headers.realIp.value
    ELSE IF Truthy(headers.remoteAddress) THEN headers.remoteAddress.value
    ELSE UNKNOWN

\* an invocation of a handler: what it has read of its request and of the
\* environment, where it stands, and the response it has produced so far
\* (upstream: how the outbound call went; got: what it gave, for the relay the
\* chunks reader.read() gave; written: the strings passed to res.write();
\* relay: how the relay loop was left)
Blank ==
    [endpoint |-> "none", pc |-> "idle", method |-> "", ip |-> <<>>,
     prompt |-> [type |-> "undefined", length |-> 0],
     url |-> [type |-> "undefined", text |-> ""],
     key |-> FALSE, keyRead |-> FALSE, checked |-> FALSE, allowed |-> FALSE,
     cors |-> FALSE, status |-> 0, contentType |-> "",
     body |-> [kind |-> "none", fields |-> {}, value |-> <<>>],
     ended |-> 0, upstreamCalls |-> 0, siteFetches |-> 0,
     upstream |-> "none", got |-> <<>>, written |-> <<>>, pending |-> FALSE,
     relay |-> "none"]

\* res.status(code).json({ [field]: value })
Json(inv, code, field, value) ==
    [inv EXCEPT !.pc = "done", !.status = code,
                !.contentType = "application/json",
                !.body = [kind |-> "json", fields |-> {field}, value |-> value],
                !.ended = @ + 1]

\* res.status(200).end()
EndEmpty(inv, code) ==
    [inv EXCEPT !.pc = "done", !.status = code,
                !.body = [kind |-> "empty", fields |-> {}, value |-> <<>>],
                !.ended = @ + 1]

GenIsPreflight_Never(method) == FALSE

\* if (req.method === 'OPTIONS')
GenIsPreflight(method) == method = "OPTIONS"

\* !prompt
PromptFalsy(prompt) ==
    \/ prompt.type = "undefined"
    \/ prompt.type = "string" /\ prompt.length = 0

PromptInvalid_Exclusive(prompt) ==
    PromptFalsy(prompt) \/ prompt.type # "string" \/ prompt.length <= 20

\* if (!prompt || typeof prompt !== 'string' || prompt.length < 20)
PromptInvalid(prompt) ==
    PromptFalsy(prompt) \/ prompt.type # "string" \/ prompt.length < 20

\* if (prompt.length > 12000)
PromptTooLarge(prompt) == prompt.length > 12000

\* what checkRateLimit would return had it not been called: the state as it is
NotChecked(store, count, reset) ==
    [allowed |-> FALSE, reason |-> <<>>,
     ipStore |-> store, dailyCount |-> count, dailyReset |-> reset]

\* the body validated before the rate limit is asked
genHandler_ValidateFirst(req, key, nowMs, store, count, reset) ==
    LET ip == getIP(req.headers)
        r == checkRateLimit(ip, nowMs, store, count, reset)
        inv0 == [Blank EXCEPT !.endpoint = "generate", !.method = req.method,
                              !.cors = TRUE]
        inv1 == [inv0 EXCEPT !.prompt = req.prompt]
        inv2 == [inv1 EXCEPT !.ip = ip, !.checked = TRUE, !.allowed = r.allowed]
        inv3 == [inv2 EXCEPT !.key = key, !.keyRead = TRUE]
    IN  IF GenIsPreflight(req.method)
        THEN [inv |-> EndEmpty(inv0, 200), lim |-> NotChecked(store, count, reset)]
        ELSE IF req.method # "POST"
        THEN [inv |-> Json(inv0, 405, "error", <<"Method not allowed">>),
              lim |-> NotChecked(store, count, reset)]
        ELSE IF PromptInvalid(req.prompt)
        THEN [inv |-> Json(inv1, 400, "error", <<"Invalid request">>),
              lim |-> NotChecked(store, count, reset)]
        ELSE IF PromptTooLarge(req.prompt)
        THEN [inv |-> Json(inv1, 400, "error", <<"Prompt too large">>),
              lim |-> NotChecked(store, count, reset)]
        ELSE IF ~r.allowed
        THEN [inv |-> Json(inv2, 429, "error", r.reason), lim |-> r]
        ELSE IF ~key
        THEN [inv |-> Json(inv3, 500, "error",
                           <<"Server misconfiguration - API key not set">>),
              lim |-> r]
        ELSE [inv |-> [inv3 EXCEPT !.pc = "fetching", !.upstreamCalls = @ + 1],
              lim |-> r]

(***************************************************************************)
(* handler(req, res) from its entry to its first await (or its return):    *)
(* the invocation as it then stands, whether checkRateLimit was called,    *)
(* and what checkRateLimit returned and left.                              *)
(***************************************************************************)
genHandler(req, key, nowMs, store, count, reset) ==
    LET ip == getIP(req.headers)
        r == checkRateLimit(ip, nowMs, store, count, reset)
        inv0 == [Blank EXCEPT !.endpoint = "generate", !.method = req.method,
                              !.cors = TRUE]
        inv1 == [inv0 EXCEPT !.ip = ip, !.checked = TRUE, !.allowed = r.allowed]
        inv2 == [inv1 EXCEPT !.prompt = req.prompt]
        inv3 == [inv2 EXCEPT !.key = key, !.keyRead = TRUE]
    IN  IF GenIsPreflight(req.method)
        THEN [inv |-> EndEmpty(inv0, 200), lim |-> NotChecked(store, count, reset)]
        ELSE IF req.method # "POST"
        THEN [inv |-> Json(inv0, 405, "error", <<"Method not allowed">>),
              lim |-> NotChecked(store, count, reset)]
        ELSE IF ~r.allowed
        THEN [inv |-> Json(inv1, 429, "error", r.reason), lim |-> r]
        ELSE IF PromptInvalid(req.prompt)
        THEN [inv |-> Json(inv2, 400, "error", <<"Invalid request">>), lim |-> r]
        ELSE IF PromptTooLarge(req.prompt)
        THEN [inv |-> Json(inv2, 400, "error", <<"Prompt too large">>), lim |-> r]
        ELSE IF ~key
        THEN [inv |-> Json(inv3, 500, "error",
                           <<"Server misconfiguration - API key not set">>),
              lim |-> r]
        ELSE [inv |-> [inv3 EXCEPT !.pc = "fetching", !.upstreamCalls = @ + 1],
              lim |-> r]

\* err?.error?.message || 'Upstream API error', err being what
\* anthropicRes.json() gave, or {} when it rejected
UpstreamMessage(err) ==
    IF err.kind = "message" /\ err.message # <<>> THEN err.message
    ELSE <<"Upstream API error">>

genNotOk_Retry(inv, err) ==
    [inv EXCEPT !.pc = "fetching", !.upstreamCalls = @ + 1]

\* return res.status(502).json({ error: ... }), once anthropicRes.json() settled
genNotOk(inv, err) == Json(inv, 502, "error", UpstreamMessage(err))

\* decoder.decode(value, { stream: true }): the text given out and whether a
\* lead byte is held back.  Bytes are "a" (a one-byte character), "L" and "T"
\* (the lead and the trail byte of a two-byte character).
RECURSIVE Decode(_, _)
Decode(bytes, pending) ==
    IF bytes = <<>> THEN [text |-> <<>>, pending |-> pending]
    ELSE LET b == Head(bytes)
             rest == Tail(bytes)
             more(p) == Decode(rest, p)
         IN  IF pending /\ b = "T"
             THEN [text |-> <<"LT">> \o more(FALSE).text, pending |-> more(FALSE).pending]
             ELSE IF pending
             THEN LET again == Decode(bytes, FALSE)
                  IN  [text |-> <<"?">> \o again.text, pending |-> again.pending]
             ELSE IF b = "L"
             THEN more(TRUE)
             ELSE IF b = "T"
             THEN [text |-> <<"?">> \o more(FALSE).text, pending |-> more(FALSE).pending]
             ELSE [text |-> <<b>> \o more(FALSE).text, pending |-> more(FALSE).pending]

\* the response head goes out with the first write or with end(): 200 by default
HeadSent(inv) == [inv EXCEPT !.status = IF @ = 0 THEN 200 ELSE @]

\* finally { res.end() }
genEnd(inv) ==
    [HeadSent(inv) EXCEPT !.pc = "done", !.ended = @ + 1,
                          !.body = [kind |-> "stream", fields |-> {}, value |-> <<>>]]

\* res.write(decoder.decode(value, { stream: true }))
genWrite(inv, value) ==
    LET d == Decode(value, inv.pending)
    IN  [HeadSent(inv) EXCEPT !.got = Append(@, value),
                              !.written = Append(@, d.text),
                              !.pending = d.pending]

\* the bytes res.write(text) puts on the wire: the string in UTF-8 ("?" stands
\* for the bytes of U+FFFD, which no upstream byte of the model equals)
RECURSIVE Encode(_)
Encode(text) ==
    IF text = <<>> THEN <<>>
    ELSE (IF Head(text) = "LT" THEN <<"L", "T">> ELSE <<Head(text)>>)
           \o Encode(Tail(text))

---------------------------------------------------------------------------
(* The site fetch handler, fetch.js lines 3-43.                            *)

FetchIsPreflight_Never(method) == FALSE

\* if (req.method === 'OPTIONS')
FetchIsPreflight(method) == method = "OPTIONS"

\* if (!url || typeof url !== 'string')
UrlMissing(url) ==
    url.type = "undefined" \/ url.type # "string" \/ url.text = ""

\* new URL(url): the protocol and href of the strings the model uses; a string
\* that is no absolute URL throws
NewURL(text) ==
    CASE text = "https://example.com"
           -> [ok |-> TRUE, protocol |-> "https:", href |-> "https://example.com/"]
      [] text = "HTTP://Example.com/a"
           -> [ok |-> TRUE, protocol |-> "http:", href |-> "http://example.com/a"]
      [] text = "ftp://x.com"
           -> [ok |-> TRUE, protocol |-> "ftp:", href |-> "ftp://x.com/"]
      [] text = "javascript:alert(1)"
           -> [ok |-> TRUE, protocol |-> "javascript:", href |-> "javascript:alert(1)"]
      [] OTHER
           -> [ok |-> FALSE, protocol |-> "", href |-> ""]

\* ['http:', 'https:'].includes(parsed.protocol)
ProtocolAllowed(protocol) == protocol \in {"http:", "https:"}

\* the protocol of the parsed URL not looked at
fetchHandler_AnyProtocol(req) ==
    LET inv0 == [Blank EXCEPT !.endpoint = "fetch", !.method = req.method,
                              !.cors = TRUE]
        inv1 == [inv0 EXCEPT !.url = req.url]
        parsed == NewURL(req.url.text)
    IN  IF FetchIsPreflight(req.method) THEN EndEmpty(inv0, 200)
        ELSE IF req.method # "POST"
        THEN Json(inv0, 405, "error", <<"Method not allowed">>)
        ELSE IF UrlMissing(req.url)
        THEN Json(inv1, 400, "error", <<"Missing url">>)
        ELSE IF ~parsed.ok
        THEN Json(inv1, 400, "error", <<"Invalid URL">>)
        ELSE [inv1 EXCEPT !.pc = "fetching", !.siteFetches = @ + 1]

\* handler(req, res) of fetch.js from its entry to its first await or its return
fetchHandler(req) ==
    LET inv0 == [Blank EXCEPT !.endpoint = "fetch", !.method = req.method,
                              !.cors = TRUE]
        inv1 == [inv0 EXCEPT !.url = req.url]
        parsed == NewURL(req.url.text)
    IN  IF FetchIsPreflight(req.method) THEN EndEmpty(inv0, 200)
        ELSE IF req.method # "POST"
        THEN Json(inv0, 405, "error", <<"Method not allowed">>)
        ELSE IF UrlMissing(req.url)
        THEN Json(inv1, 400, "error", <<"Missing url">>)
        ELSE IF ~parsed.ok \/ ~ProtocolAllowed(parsed.protocol)
        THEN Json(inv1, 400, "error", <<"Invalid URL">>)
        ELSE [inv1 EXCEPT !.pc = "fetching", !.siteFetches = @ + 1]

\* the fetch of the site settled: it rejected, or gave a response
fetchSettled(inv, outcome) ==
    IF outcome.kind = "rejects"
    THEN Json([inv EXCEPT !.upstream = "rejects", !.got = <<outcome.message>>],
              502, "error", <<"Could not reach site: ", outcome.message>>)
    ELSE IF outcome.kind = "notok"
    THEN Json([inv EXCEPT !.upstream = "notok", !.got = <<outcome.status>>],
              502, "error", <<"Site returned ", outcome.status>>)
    ELSE [inv EXCEPT !.pc = "text", !.upstream = "ok"]

\* response.text() settled
fetchText(inv, outcome) ==
    IF outcome.kind = "rejects"
    THEN Json([inv EXCEPT !.upstream = "rejects", !.got = <<outcome.message>>],
              502, "error", <<"Could not reach site: ", outcome.message>>)
    ELSE Json([inv EXCEPT !.got = <<outcome.text>>], 200, "html", outcome.text)

---------------------------------------------------------------------------
(* Requests, and what the outside world may answer.                        *)

NumSlots == 2

Slots == 1..NumSlots

MaxChunks == 2

Methods == {"OPTIONS", "POST", "GET"}

\* header sets: each line of getIP's precedence decides for one of them
GenHeaders ==
    { [xff |-> Hdr(<<"a", " ", ",", " ", "b">>), realIp |-> Hdr(IP_B),
       remoteAddress |-> Hdr(IP_B)],
      [xff |-> NoHdr, realIp |-> Hdr(<<>>), remoteAddress |-> Hdr(IP_A)],
      [xff |-> NoHdr, realIp |-> NoHdr, remoteAddress |-> NoHdr] }

Prompts ==
    { [type |-> "undefined", length |-> 0], [type |-> "array", length |-> 25] }
      \cup { [type |-> "string", length |-> n] : n \in {0, 19, 20, 12000, 12001} }

\* a handler reads the headers and the body of a POST only: the other
\* methods come with two bodies and one set of headers
GenRequests ==
    [method : {"POST"}, headers : GenHeaders, prompt : Prompts]
      \cup [method : Methods \ {"POST"},
            headers : {[xff |-> NoHdr, realIp |-> NoHdr, remoteAddress |-> Hdr(IP_A)]},
            prompt : {[type |-> "undefined", length |-> 0],
                      [type |-> "string", length |-> 20]}]

\* what anthropicRes.json() gives on an error response
ErrBodies ==
    { [kind |-> "rejects", message |-> <<>>], [kind |-> "noerror", message |-> <<>>],
      [kind |-> "message", message |-> <<>>],
      [kind |-> "message", message |-> <<"overloaded">>] }

ChunkValues == { <<"a">>, <<"a", "L">>, <<"T">> }

Urls ==
    { [type |-> "undefined", text |-> ""], [type |-> "number", text |-> ""] }
      \cup { [type |-> "string", text |-> t] :
               t \in {"", "example.com", "ftp://x.com", "javascript:alert(1)",
                      "https://example.com", "HTTP://Example.com/a"} }

FetchRequests ==
    [method : {"POST"}, url : Urls]
      \cup [method : Methods \ {"POST"},
            url : {[type |-> "undefined", text |-> ""],
                   [type |-> "string", text |-> "https://example.com"]}]

SiteOutcomes ==
    { [kind |-> "rejects", message |-> "ECONNREFUSED", status |-> 0],
      [kind |-> "notok", message |-> "", status |-> 404],
      [kind |-> "ok", message |-> "", status |-> 200] }

TextOutcomes ==
    { [kind |-> "rejects", message |-> "terminated", text |-> <<>>],
      [kind |-> "ok", message |-> "", text |-> <<"<html>">>] }

NoProbe == [op |-> "none"]

MaxHeaderLen == 3

\* strings of at most n characters out of "a", "b", the blank and the comma
RECURSIVE Strings(_)
Strings(n) ==
    IF n = 0 THEN {<<>>}
    ELSE Strings(n - 1)
           \cup { Append(s, c) : s \in Strings(n - 1), c \in {"a", "b", " ", ","} }

\* header values as the HTTP parser hands them over: without the blanks
\* around the field value
FieldValues ==
    { s \in Strings(MaxHeaderLen) :
        s = <<>> \/ (s[1] # " " /\ s[Len(s)] # " ") }

\* req.headers and req.socket, for getIP on its own
HeaderInputs ==
    [xff : {NoHdr} \cup { Hdr(v) : v \in FieldValues },
     realIp : {NoHdr, Hdr(<<>>), Hdr(<<"b">>), Hdr(<<"b", ",", "a">>)},
     remoteAddress : {NoHdr, Hdr(<<>>), Hdr(<<"c">>)}]

\* clock readings of the handler runs
GenInstants == { 0, RATE_LIMIT_WINDOW }

\* await fetch(...) settled: the fetch rejected (nothing catches it), or gave
\* a response that is not ok, or one that is and whose body is read
genSettled(inv, outcome) ==
    IF outcome = "rejects" THEN [inv EXCEPT !.pc = "threw", !.upstream = "rejects"]
    ELSE IF outcome = "notok" THEN [inv EXCEPT !.pc = "errbody", !.upstream = "notok"]
    ELSE [inv EXCEPT !.pc = "reading", !.upstream = "ok",
                     !.contentType = "text/event-stream", !.relay = "open"]

\* the relay loop without its catch block: finally still ends the response,
\* and the failure of the read or of the write leaves the handler
genRead_NoCatch(inv, outcome) ==
    IF outcome.kind = "chunk" THEN genWrite(inv, outcome.value)
    ELSE IF outcome.kind = "writeThrows"
    THEN [genEnd([inv EXCEPT !.got = Append(@, outcome.value),
                             !.relay = "writeThrew"]) EXCEPT !.pc = "threw"]
    ELSE IF outcome.kind = "readRejects"
    THEN [genEnd([inv EXCEPT !.relay = "readRejected"]) EXCEPT !.pc = "threw"]
    ELSE genEnd([inv EXCEPT !.relay = "eof"])

\* one turn of the relay loop, given how reader.read() and res.write() went
genRead(inv, outcome) ==
    IF outcome.kind = "chunk" THEN genWrite(inv, outcome.value)
    ELSE IF outcome.kind = "writeThrows"
    THEN genEnd([inv EXCEPT !.got = Append(@, outcome.value),
                            !.relay = "writeThrew"])
    ELSE IF outcome.kind = "readRejects"
    THEN genEnd([inv EXCEPT !.relay = "readRejected"])
    ELSE genEnd([inv EXCEPT !.relay = "eof"])

ReadOutcomesOf(inv, values) ==
    { [kind |-> "done", value |-> <<>>], [kind |-> "readRejects", value |-> <<>>] }
      \cup (IF Len(inv.got) < MaxChunks
            THEN [kind : {"chunk", "writeThrows"}, value : values]
            ELSE {})

ReadOutcomes(inv) == ReadOutcomesOf(inv, ChunkValues)

\* POSTs of two identifiers with a prompt that is missing, too short, too
\* long, or valid
FailingRequests ==
    [method : {"POST"},
     headers : { [xff |-> Hdr(<<"a", " ", ",", " ", "b">>), realIp |-> Hdr(IP_B),
                  remoteAddress |-> Hdr(IP_B)],
                 [xff |-> NoHdr, realIp |-> NoHdr, remoteAddress |-> NoHdr] },
     prompt : { [type |-> "undefined", length |-> 0] }
                \cup { [type |-> "string", length |-> n] : n \in {19, 20, 12001} }]

\* the requests of the concurrent runs: two identifiers, a valid prompt and an
\* invalid one
ConcRequests ==
    [method : {"POST"},
     headers : { [xff |-> Hdr(<<"a", " ", ",", " ", "b">>), realIp |-> Hdr(IP_B),
                  remoteAddress |-> Hdr(IP_B)],
                 [xff |-> NoHdr, realIp |-> NoHdr, remoteAddress |-> NoHdr] },
     prompt : { [type |-> "string", length |-> n] : n \in {19, 20} }]

---------------------------------------------------------------------------
(* The state machine.                                                      *)

Init ==
    /\ now = 0
    /\ ipStore = << >>
    /\ dailyCount = 0
    /\ dailyReset = 0 + DAY_MS
    /\ last = NoCall
    /\ admitted = [ip \in Idents |-> <<>>]
    /\ epoch = [ip \in Idents |-> 0]
    /\ inflight = [s \in Slots |-> Blank]
    /\ out = Blank
    /\ probe = NoProbe
    /\ tally = 0
    /\ dayLog = <<>>

\* time passes: Date.now() moves on to a later reading
Elapse(instants) ==
    /\ \E t \in instants : t > now /\ now' = t
    /\ last' = NoCall
    /\ out' = Blank
    /\ admitted' = [ip \in Idents |-> Recent(admitted[ip], now')]
    /\ epoch' = [ip \in Idents |->
                   IF Replenished(admitted[ip], now') THEN 0 ELSE epoch[ip]]
    /\ UNCHANGED <<ipStore, dailyCount, dailyReset, inflight, probe, tally>>

Advance(instants) == Elapse(instants) /\ UNCHANGED dayLog

\* the same in the daily runs, where the admissions of the last 24 hours are kept
TickDay == Elapse(DayInstants) /\ dayLog' = LogSince(dayLog, now' - DAY_MS)

Tick == Advance(Instants)

TickCap == Advance(CapInstants)

TickGen == Advance(GenInstants)

\* the admissions since dailyReset last moved, after a call that returned r
Tallied(r) ==
    (IF r.dailyReset # dailyReset THEN 0 ELSE tally) + (IF r.allowed THEN 1 ELSE 0)

\* the history after a call by ip that returned r
Noted(ip, r) ==
    IF r.allowed /\ ip \in Idents
    THEN [admitted EXCEPT ![ip] = Remember(@, now)]
    ELSE admitted

Counted(ip) ==
    IF ip \in Idents
    THEN [epoch EXCEPT ![ip] = NextEpoch(@, admitted[ip], now)]
    ELSE epoch

\* one call checkRateLimit(ip) by a followed identifier
Call(ip) ==
    \E r \in {checkRateLimit(ip, now, ipStore, dailyCount, dailyReset)} :
        /\ ipStore' = r.ipStore
        /\ dailyCount' = r.dailyCount
        /\ dailyReset' = r.dailyReset
        /\ last' = CallRecord(ip, r, StoreGet(ipStore, ip), dailyCount, dailyReset)
        /\ admitted' = Noted(ip, r)
        /\ epoch' = Counted(ip)
        /\ tally' = Tallied(r)
        /\ UNCHANGED <<now, inflight, out, probe, dayLog>>

\* one call checkRateLimit(ip) by an identifier never seen before and never
\* used again: its entry of ipStore is never read, and is left out of the model
Fresh ==
    \E r \in {checkRateLimit(IP_FRESH, now, ipStore, dailyCount, dailyReset)} :
        /\ ipStore' = [x \in (DOMAIN r.ipStore) \ {IP_FRESH} |-> r.ipStore[x]]
        /\ dailyCount' = r.dailyCount
        /\ dailyReset' = r.dailyReset
        /\ last' = CallRecord(IP_FRESH, r, <<>>, dailyCount, dailyReset)
        /\ tally' = Tallied(r)
        /\ UNCHANGED <<now, admitted, epoch, inflight, out, probe>>

FreshCall == Fresh /\ UNCHANGED dayLog

\* the same in the daily runs
DayCall ==
    Fresh /\ dayLog' = IF last'.allowed THEN Logged(dayLog, now) ELSE dayLog

\* an invocation went on: it is suspended again in its slot, or it is over
Proceed(s, inv) ==
    IF inv.pc \in {"done", "threw"}
    THEN out' = inv /\ inflight' = [inflight EXCEPT ![s] = Blank]
    ELSE out' = Blank /\ inflight' = [inflight EXCEPT ![s] = inv]

Untouched ==
    UNCHANGED <<now, ipStore, dailyCount, dailyReset, admitted, epoch, probe,
                tally, dayLog>>

\* the slot a new invocation takes: the first idle one (slots have no identity)
FirstIdle(s) ==
    /\ inflight[s].pc = "idle"
    /\ \A t \in Slots : t < s => inflight[t].pc # "idle"

\* a request reaches the generation endpoint; the handler runs to its first
\* await, or to its return
GenStartWith(s, requests, keys) ==
    /\ FirstIdle(s)
    /\ \E req \in requests, key \in keys :
         \E e \in {genHandler(req, key, now, ipStore, dailyCount, dailyReset)} :
         LET ip == e.inv.ip
         IN  /\ ipStore' = e.lim.ipStore
             /\ dailyCount' = e.lim.dailyCount
             /\ dailyReset' = e.lim.dailyReset
             /\ last' = IF e.inv.checked
                        THEN CallRecord(ip, e.lim, StoreGet(ipStore, ip),
                                        dailyCount, dailyReset)
                        ELSE NoCall
             /\ admitted' = IF e.inv.checked THEN Noted(ip, e.lim) ELSE admitted
             /\ epoch' = IF e.inv.checked THEN Counted(ip) ELSE epoch
             /\ tally' = IF e.inv.checked THEN Tallied(e.lim) ELSE tally
             /\ \E inv \in {e.inv} : Proceed(s, inv)
             /\ UNCHANGED <<now, probe, dayLog>>

GenStart(s) == GenStartWith(s, GenRequests, BOOLEAN)

\* await fetch(...) of the generation API settles
GenFetchSettlesWith(s, outcomes) ==
    /\ inflight[s].endpoint = "generate" /\ inflight[s].pc = "fetching"
    /\ \E outcome \in outcomes :
         \E inv \in {genSettled(inflight[s], outcome)} : Proceed(s, inv)
    /\ last' = NoCall
    /\ Untouched

GenFetchSettles(s) == GenFetchSettlesWith(s, {"ok", "notok", "rejects"})

\* await anthropicRes.json().catch(() => ({})) settles
GenErrBody(s) ==
    /\ inflight[s].endpoint = "generate" /\ inflight[s].pc = "errbody"
    /\ \E err \in ErrBodies :
         \E inv \in {genNotOk(inflight[s], err)} : Proceed(s, inv)
    /\ last' = NoCall
    /\ Untouched

\* await reader.read() settles, and the loop body runs
GenReadWith(s, values) ==
    /\ inflight[s].endpoint = "generate" /\ inflight[s].pc = "reading"
    /\ \E outcome \in ReadOutcomesOf(inflight[s], values) :
         \E inv \in {genRead(inflight[s], outcome)} : Proceed(s, inv)
    /\ last' = NoCall
    /\ Untouched

GenRead(s) == GenReadWith(s, ChunkValues)

\* a request reaches the fetch endpoint
FetchStart(s) ==
    /\ FirstIdle(s)
    /\ \E req \in FetchRequests :
         \E inv \in {fetchHandler(req)} : Proceed(s, inv)
    /\ last' = NoCall
    /\ Untouched

\* await fetch(parsed.href, ...) settles
FetchSettles(s) ==
    /\ inflight[s].endpoint = "fetch" /\ inflight[s].pc = "fetching"
    /\ \E outcome \in SiteOutcomes :
         \E inv \in {fetchSettled(inflight[s], outcome)} : Proceed(s, inv)
    /\ last' = NoCall
    /\ Untouched

\* await response.text() settles
FetchText(s) ==
    /\ inflight[s].endpoint = "fetch" /\ inflight[s].pc = "text"
    /\ \E outcome \in TextOutcomes :
         \E inv \in {fetchText(inflight[s], outcome)} : Proceed(s, inv)
    /\ last' = NoCall
    /\ Untouched

\* getIP(req) applied to one request
ApplyGetIP ==
    /\ probe.op = "input"
    /\ probe' = [op |-> "getIP", headers |-> probe.headers,
                 ip |-> getIP(probe.headers)]
    /\ UNCHANGED <<now, ipStore, dailyCount, dailyReset, last, admitted, epoch,
                   inflight, out, tally, dayLog>>

\* one invocation at a time
Next ==
    \/ TickGen
    \/ GenStart(1)
    \/ GenFetchSettles(1)
    \/ GenErrBody(1)
    \/ GenRead(1)
    \/ FetchStart(1)
    \/ FetchSettles(1)
    \/ FetchText(1)

\* the two endpoints
Spec == Init /\ [][Next]_vars

NextLimiter == Tick \/ \E ip \in Callers : Call(ip)

\* the admission controller alone, on a fine clock
SpecLimiter == Init /\ [][NextLimiter]_vars

NextCap == TickCap \/ FreshCall \/ Call(IP_A)

\* the admission controller alone, with enough traffic to reach the daily cap
SpecCap == Init /\ [][NextCap]_vars

InitGetIP ==
    /\ now = 0
    /\ ipStore = << >>
    /\ dailyCount = 0
    /\ dailyReset = 0 + DAY_MS
    /\ last = NoCall
    /\ admitted = [ip \in Idents |-> <<>>]
    /\ epoch = [ip \in Idents |-> 0]
    /\ inflight = [s \in Slots |-> Blank]
    /\ out = Blank
    /\ probe \in [op : {"input"}, headers : HeaderInputs]
    /\ tally = 0
    /\ dayLog = <<>>

\* getIP on its own, over the requests a client can send
SpecGetIP == InitGetIP /\ [][ApplyGetIP]_vars

\* the module after a quiet start, or after other visitors have used all but
\* two admissions of the day (their identifiers are not seen again)
InitConcurrent ==
    /\ now = 0
    /\ ipStore = << >>
    /\ dailyCount \in {0, DAILY_GLOBAL_CAP - 2}
    /\ dailyReset = 0 + DAY_MS
    /\ last = NoCall
    /\ admitted = [ip \in Idents |-> <<>>]
    /\ epoch = [ip \in Idents |-> 0]
    /\ inflight = [s \in Slots |-> Blank]
    /\ out = Blank
    /\ probe = NoProbe
    /\ tally = dailyCount
    /\ dayLog = <<>>

NextConcurrent ==
    \/ TickGen
    \/ \E s \in Slots :
         \/ GenStartWith(s, ConcRequests, {TRUE})
         \/ GenFetchSettles(s)
         \/ GenErrBody(s)
         \/ GenReadWith(s, {})

\* invocations of the generation handler interleaved at their awaits; the
\* relay is followed to its end without its chunks, whose content plays no
\* part in admission
SpecConcurrent == InitConcurrent /\ [][NextConcurrent]_vars

NextFailing ==
    \/ TickGen
    \/ GenStartWith(1, FailingRequests, BOOLEAN)
    \/ GenFetchSettlesWith(1, {"notok"})
    \/ GenErrBody(1)

\* the generation endpoint while the generation API answers every call with
\* an error status: no admitted request gets its stream
SpecFailing == Init /\ [][NextFailing]_vars

NextDay == TickDay \/ DayCall

\* the admission controller alone, over two days of traffic from ever new
\* identifiers
SpecDay == Init /\ [][NextDay]_vars

---------------------------------------------------------------------------
(* The admission controller's contract.                                    *)

\* the admitted requests of an identifier in the trailing window, from the history
History(ip) == IF ip \in Idents THEN Recent(admitted[ip], now) ELSE <<>>

\* this step is one call of checkRateLimit
IsCall == last'.op = "call" /\ now' = now

\* the global counter as the call sees it, after any daily reset
CountSeen == IF now > dailyReset THEN 0 ELSE dailyCount

\* C1: a call is allowed whenever the global counter (after any daily reset)
\* is below DAILY_GLOBAL_CAP and the identifier has fewer than RATE_LIMIT_MAX
\* admitted requests in the trailing window.
C1_AllowedUnderLimits ==
    [][ (IsCall /\ CountSeen < DAILY_GLOBAL_CAP
                /\ Len(History(last'.ip)) < RATE_LIMIT_MAX)
        => last'.allowed ]_vars

\* the third request of an identifier in one window takes the last slot of the day
C1_Witness ==
    /\ last.op = "call" /\ last.ip = IP_A /\ last.allowed
    /\ admitted[IP_A] = <<0, 0, MINUTE_MS>>
    /\ last.countBefore = DAILY_GLOBAL_CAP - 1

\* C2: with RATE_LIMIT_MAX admitted requests in the trailing window the next
\* call is denied, and the retry-after it reports is the ceiling, in minutes,
\* of (oldest of them + window - now), between 1 and 60; admissions at
\* minutes 0, 1, 2 and a request at minute 3 give 57.
C2_DeniedWithRetryAfter ==
    [][ (IsCall /\ CountSeen < DAILY_GLOBAL_CAP
                /\ Len(History(last'.ip)) >= RATE_LIMIT_MAX)
        => LET wait == History(last'.ip)[1] + RATE_LIMIT_WINDOW - now
               reason == last'.reason
           IN  /\ ~last'.allowed
               /\ Len(reason) = 7
               /\ reason[4] \in 1..(RATE_LIMIT_WINDOW \div MINUTE_MS)
               /\ (reason[4] - 1) * MINUTE_MS < wait
               /\ wait <= reason[4] * MINUTE_MS
               /\ reason[6] = (IF reason[4] = 1 THEN "" ELSE "s")
               /\ (now = 3 * MINUTE_MS
                     /\ History(last'.ip) = <<0, MINUTE_MS, 2 * MINUTE_MS>>
                   => reason[4] = 57) ]_vars

C2_Witness ==
    /\ last.op = "call" /\ ~last.allowed /\ now = 3 * MINUTE_MS
    /\ admitted[last.ip] = <<0, MINUTE_MS, 2 * MINUTE_MS>>
    /\ last.reason[4] = 57

\* C3: once the global counter has reached DAILY_GLOBAL_CAP, every call made
\* while now <= dailyReset is denied with the fixed daily reason, whatever
\* the identifier's own history.
C3_CapDeniesAll ==
    [][ (IsCall /\ dailyCount >= DAILY_GLOBAL_CAP /\ now <= dailyReset)
        => (~last'.allowed /\ Len(last'.reason) = 1
              /\ last'.reason = DAILY_REASON) ]_vars

\* an identifier over its own limit is told of the daily limit
C3_Witness ==
    /\ last.op = "call" /\ last.ip = IP_A /\ ~last.allowed
    /\ Len(admitted[IP_A]) = RATE_LIMIT_MAX
    /\ Len(last.reason) = 1
    /\ last.countBefore >= DAILY_GLOBAL_CAP

\* C4: a denied call records nothing: the global counter is not incremented
\* and every stored sequence is as it was.
C4_DeniedRecordsNothing ==
    [][ (IsCall /\ ~last'.allowed)
        => (ipStore' = ipStore /\ dailyCount' = CountSeen
              /\ admitted' = admitted) ]_vars

\* a call denied by the cap while the identifier's stored entry has expired
C4_Witness ==
    /\ last.op = "call" /\ last.ip = IP_A /\ ~last.allowed
    /\ Len(last.reason) = 1
    /\ last.storedBefore # <<>>
    /\ Recent(last.storedBefore, now) = <<>>
    /\ ipStore[IP_A] = last.storedBefore

\* C5: a call made after dailyReset has passed sets the global counter back
\* to zero before the cap test, so it is admitted if the identifier's own
\* window holds fewer than RATE_LIMIT_MAX requests.
C5_ResetReadmits ==
    [][ (IsCall /\ now > dailyReset)
        => /\ dailyCount' = (IF last'.allowed THEN 1 ELSE 0)
           /\ (Len(History(last'.ip)) < RATE_LIMIT_MAX => last'.allowed) ]_vars

\* the cap had been reached, the day passed, and the identifier is admitted
C5_Witness ==
    /\ last.op = "call" /\ last.ip = IP_A /\ last.allowed
    /\ last.countBefore >= DAILY_GLOBAL_CAP
    /\ now > last.resetBefore
    /\ dailyCount = 1

\* C6: once a full window has passed since an identifier's most recent
\* admitted request, its next RATE_LIMIT_MAX requests are all admitted, the
\* global cap permitting.
C6_QuotaReplenishes ==
    [][ (IsCall /\ last'.ip \in Idents /\ CountSeen < DAILY_GLOBAL_CAP
                /\ epoch'[last'.ip] \in 1..RATE_LIMIT_MAX)
        => last'.allowed ]_vars

\* exactly one window after three admissions, the first request is admitted
C6_Witness ==
    /\ last.op = "call" /\ last.allowed /\ now = RATE_LIMIT_WINDOW
    /\ last.storedBefore = <<0, 0, 0>>
    /\ epoch[last.ip] = 1

---------------------------------------------------------------------------
(* The handlers' contract.                                                 *)

\* a prompt that the interface accepts: a string of 20 to 12000 characters
ValidPrompt(prompt) ==
    prompt.type = "string" /\ prompt.length >= 20 /\ prompt.length <= 12000

\* C7: an OPTIONS request to either endpoint returns 200 with an empty body,
\* whatever the state of the rate limiter and whatever the body, and makes
\* no admission check and no outbound call: the counter, dailyReset and
\* every stored sequence are unchanged.
C7_PreflightTouchesNothing ==
    [][ (out'.pc = "done" /\ out'.method = "OPTIONS")
        => /\ out'.status = 200 /\ out'.body.kind = "empty" /\ out'.ended = 1
           /\ ~out'.checked /\ last' = NoCall
           /\ out'.upstreamCalls = 0 /\ out'.siteFetches = 0
           /\ UNCHANGED <<ipStore, dailyCount, dailyReset, inflight>> ]_vars

\* a preflight of the generation endpoint while an identifier's window is full
C7_Witness ==
    /\ out.endpoint = "generate" /\ out.method = "OPTIONS" /\ out.status = 200
    /\ IP_A \in DOMAIN ipStore /\ Len(ipStore[IP_A]) = RATE_LIMIT_MAX

\* the status the fixed order of checks gives an invocation of the
\* generation endpoint that is over
ExpectedStatus(inv) ==
    IF inv.method # "POST" THEN 405
    ELSE IF ~inv.allowed THEN 429
    ELSE IF ~ValidPrompt(inv.prompt) THEN 400
    ELSE IF ~inv.key THEN 500
    ELSE IF inv.upstream = "notok" THEN 502
    ELSE 200

\* C8: every request to the generation endpoint (other than a preflight)
\* produces exactly one outcome, decided by the first failing check in the
\* order 405, 429 (with the controller's reason), 400, 500, 502, else the
\* 200 event-stream; every outcome but the stream is a JSON object with the
\* single field error.
C8_OneOutcomeInOrder ==
    (out.endpoint = "generate" /\ out.method # "OPTIONS")
    => /\ out.pc = "done" /\ out.ended = 1
       /\ out.status = ExpectedStatus(out)
       /\ IF out.status = 200
          THEN out.body.kind = "stream" /\ out.contentType = "text/event-stream"
          ELSE out.body.kind = "json" /\ out.body.fields = {"error"}
       /\ (out.status = 429
             => last.op = "call" /\ ~last.allowed /\ out.body.value = last.reason)

\* C9: a prompt passes validation exactly when it is a string of length 20 to
\* 12000: length 19 and length 12001 give 400, length 20 passes.
PromptRule(inv) ==
    (inv.endpoint = "generate" /\ inv.checked /\ inv.allowed)
    => IF ValidPrompt(inv.prompt)
       THEN inv.keyRead /\ inv.status # 400
       ELSE ~inv.keyRead /\ inv.pc = "done" /\ inv.status = 400
              /\ inv.upstreamCalls = 0

C9_PromptValidation ==
    PromptRule(out) /\ \A s \in Slots : PromptRule(inflight[s])

\* a prompt of length 20 has passed validation and the upstream call is out
C9_Witness ==
    /\ inflight[1].pc = "fetching" /\ inflight[1].endpoint = "generate"
    /\ inflight[1].prompt = [type |-> "string", length |-> 20]

\* C10: a request causes at most one call to the generation API, and only
\* when it is a POST that was admitted, passed validation and found the
\* credential; no failure causes a second call.
OneUpstreamCall(inv) ==
    /\ inv.upstreamCalls <= 1
    /\ inv.upstreamCalls = 1
         => /\ inv.endpoint = "generate" /\ inv.method = "POST"
            /\ inv.checked /\ inv.allowed
            /\ ValidPrompt(inv.prompt)
            /\ inv.keyRead /\ inv.key
    /\ inv.status \in {405, 429, 400, 500} => inv.upstreamCalls = 0

C10_AtMostOneUpstreamCall ==
    OneUpstreamCall(out) /\ \A s \in Slots : OneUpstreamCall(inflight[s])

\* the upstream call failed with a non-success status: 502, and one call made
C10_Witness ==
    /\ out.endpoint = "generate" /\ out.status = 502 /\ out.upstreamCalls = 1

\* the relay of one invocation: writes follow reads one for one and in order,
\* and each write carries the chunk that was read
RelayedAsRead(inv) ==
    (inv.endpoint = "generate" /\ inv.upstream = "ok")
    => /\ Len(inv.written) <= Len(inv.got)
       /\ \A i \in 1..Len(inv.written) : Encode(inv.written[i]) = inv.got[i]
       /\ inv.pc = "reading" => Len(inv.written) = Len(inv.got)
       /\ inv.relay = "eof" => Len(inv.written) = Len(inv.got)

\* C11: on the streaming path the chunks written to the caller are at every
\* moment a prefix, in order, of the chunks read from upstream, each chunk is
\* written before the next is read, and when the upstream stream ends with no
\* read or write error every upstream chunk has been written exactly once.
C11_RelayInOrder ==
    RelayedAsRead(out) /\ \A s \in Slots : RelayedAsRead(inflight[s])

\* the relay loop of an invocation was left: by a failed read, a failed write
\* or the end of the upstream stream
LoopLeft(inv) == inv.relay \in {"readRejected", "writeThrew", "eof"}

\* C12: when a read or a write of the relay loop fails, the handler stops
\* relaying and ends cleanly: the loop is left, the response is ended exactly
\* once, no error status or error body is emitted and no exception escapes;
\* and when the upstream stream ends the loop is left with the response ended.
C12_CleanTermination ==
    /\ (out.endpoint = "generate" /\ LoopLeft(out))
          => /\ out.pc = "done" /\ out.ended = 1
             /\ out.status = 200 /\ out.body.kind = "stream"
             /\ out.contentType = "text/event-stream"
             /\ out.upstreamCalls = 1
             /\ Len(out.written) =
                  IF out.relay = "writeThrew" THEN Len(out.got) - 1 ELSE Len(out.got)
    /\ \A s \in Slots :
          /\ ~LoopLeft(inflight[s])
          /\ inflight[s].relay = "open" => inflight[s].pc = "reading"
                                              /\ inflight[s].ended = 0

\* the second write failed, after one chunk had been relayed
C12_Witness ==
    /\ out.relay = "writeThrew" /\ Len(out.written) = 1 /\ Len(out.got) = 2
    /\ out.ended = 1

\* the part of a header value before its first comma
FirstValue(v) ==
    LET commas == { i \in 1..Len(v) : v[i] = "," }
        stop == IF commas = {} THEN Len(v) + 1
                ELSE CHOOSE i \in commas : \A j \in commas : i <= j
    IN  SubSeq(v, 1, stop - 1)

\* a value without the blanks around it
Stripped(v) ==
    LET solid == { i \in 1..Len(v) : v[i] # " " }
    IN  IF solid = {} THEN <<>>
        ELSE SubSeq(v, CHOOSE i \in solid : \A j \in solid : i <= j,
                       CHOOSE i \in solid : \A j \in solid : i >= j)

\* a source of the identifier is absent or empty
NoValue(h) == ~h.present \/ h.value = <<>>

NoForwarded(h) == ~h.present \/ FirstValue(h.value) = <<>>

\* C13: the identifier is the first comma-separated value of x-forwarded-for
\* (without the blanks around it), else x-real-ip, else the socket's remote
\* address, else 'unknown'; a lower source is used only when every higher one
\* is absent or empty.
C13_IdentifierPrecedence ==
    probe.op = "getIP"
    => LET h == probe.headers
       IN  probe.ip =
             IF ~NoForwarded(h.xff) THEN Stripped(FirstValue(h.xff.value))
             ELSE IF ~NoValue(h.realIp) THEN h.realIp.value
             ELSE IF ~NoValue(h.remoteAddress) THEN h.remoteAddress.value
             ELSE <<"u", "n", "k", "n", "o", "w", "n">>

\* x-forwarded-for starts with a comma and x-real-ip is empty: the socket's
\* remote address is the identifier
C13_Witness ==
    /\ probe.op = "getIP"
    /\ probe.headers.xff = Hdr(<<",", "a">>)
    /\ probe.headers.realIp = Hdr(<<>>)
    /\ probe.headers.remoteAddress = Hdr(<<"c">>)
    /\ probe.ip = <<"c">>

---------------------------------------------------------------------------
(* The fetch endpoint's contract.                                          *)

\* the urls of the model that are absolute http or https URLs
HttpUrls == {"https://example.com", "HTTP://Example.com/a"}

\* a url that is present, a string, and an absolute http or https URL
ValidUrl(url) == url.type = "string" /\ url.text \in HttpUrls

FetchRule(inv) ==
    (inv.endpoint = "fetch" /\ inv.method = "POST")
    => /\ inv.siteFetches <= 1
       /\ inv.upstreamCalls = 0
       /\ inv.siteFetches = (IF ValidUrl(inv.url) THEN 1 ELSE 0)
       /\ ~ValidUrl(inv.url)
            => /\ inv.pc = "done" /\ inv.status = 400 /\ inv.ended = 1
               /\ inv.body.kind = "json" /\ inv.body.fields = {"error"}
       /\ (ValidUrl(inv.url) /\ inv.pc = "done")
            => /\ inv.ended = 1 /\ inv.body.kind = "json"
               /\ IF inv.upstream = "notok"
                  THEN /\ inv.status = 502 /\ inv.body.fields = {"error"}
                       /\ inv.body.value = <<"Site returned ", inv.got[1]>>
                  ELSE IF inv.upstream = "rejects"
                  THEN /\ inv.status = 502 /\ inv.body.fields = {"error"}
                       /\ inv.body.value = <<"Could not reach site: ", inv.got[1]>>
                  ELSE /\ inv.upstream = "ok"
                       /\ inv.status = 200 /\ inv.body.fields = {"html"}
                       /\ inv.body.value = inv.got[1]
       /\ inv.pc \in {"done", "fetching", "text"}

\* C14: a POST to the fetch endpoint makes at most one outbound fetch, and
\* only for a url that is present, a string and an absolute http or https
\* URL; any other url gives 400 and no fetch (ftp://x.com); a non-success
\* status gives 502 carrying the status code, a network failure 502 carrying
\* the failure description, success 200 with the body in the field html.
C14_FetchEndpoint ==
    FetchRule(out) /\ \A s \in Slots : FetchRule(inflight[s])

\* ftp://x.com was refused with 400 and nothing was fetched
C14_Witness ==
    /\ out.endpoint = "fetch" /\ out.method = "POST"
    /\ out.url = [type |-> "string", text |-> "ftp://x.com"]
    /\ out.status = 400 /\ out.siteFetches = 0

---------------------------------------------------------------------------
(* Invariants of the admission controller.                                 *)

\* the admitted requests of ip with a timestamp t, T - RATE_LIMIT_WINDOW < t <= T
AdmittedWithin(ip, T) ==
    { i \in 1..Len(admitted[ip]) :
        T - RATE_LIMIT_WINDOW < admitted[ip][i] /\ admitted[ip][i] <= T }

\* C15: for every identifier and every time T, at most RATE_LIMIT_MAX admitted
\* requests of the identifier have a timestamp t, T - RATE_LIMIT_WINDOW < t <= T.
\* (The count of an interval is largest when T is the time of an admission,
\* and every admission is made in a state whose clock reads T.)
C15_SlidingWindowBound ==
    \A ip \in Idents : Cardinality(AdmittedWithin(ip, now)) <= RATE_LIMIT_MAX

\* the window slid: the oldest admitted request has left it, a new one was
\* admitted, and the window is full again
C15_Witness ==
    /\ last.op = "call" /\ last.allowed /\ last.ip = IP_A
    /\ Cardinality(AdmittedWithin(IP_A, now)) = RATE_LIMIT_MAX
    /\ admitted[IP_A][1] > 0 /\ now >= RATE_LIMIT_WINDOW

\* what the call of this step adds to the counter
Admits == IF last'.allowed THEN 1 ELSE 0

\* C16: a call resets the counter to zero exactly when it observes
\* now > dailyReset (not when now = dailyReset or earlier) and then sets
\* dailyReset to now + 24 hours; every other call leaves dailyReset as it is;
\* so dailyReset never decreases and now <= dailyReset after every call.
C16_DailyReset ==
    [][ /\ dailyReset' >= dailyReset
        /\ IsCall
             => /\ IF now > dailyReset
                   THEN dailyReset' = now + DAY_MS /\ dailyCount' = 0 + Admits
                   ELSE dailyReset' = dailyReset /\ dailyCount' = dailyCount + Admits
                /\ now' <= dailyReset'
        /\ ~IsCall => dailyCount' = dailyCount /\ dailyReset' = dailyReset ]_vars

\* a call made after dailyReset found the counter at the cap and reset it
C16_Witness ==
    /\ last.op = "call" /\ now > last.resetBefore
    /\ last.countBefore = DAILY_GLOBAL_CAP
    /\ dailyReset = now + DAY_MS /\ dailyCount = 1

\* the timestamps of a sequence
Stamps(seq) == { seq[i] : i \in 1..Len(seq) }

\* C17: after every call that the global cap does not short-circuit (it admits,
\* or it denies on the per-identifier limit) the identifier's stored sequence
\* holds only timestamps t with now - t < RATE_LIMIT_WINDOW, in non-decreasing
\* order, at most RATE_LIMIT_MAX of them; an entry that was dropped had
\* expired, and nothing but the time of the call is ever added.
C17_StoredSequence ==
    [][ (IsCall /\ last'.reason # DAILY_REASON)
        => LET was == StoreGet(ipStore, last'.ip)
               seq == StoreGet(ipStore', last'.ip)
           IN  /\ \A i \in 1..Len(seq) : now - seq[i] < RATE_LIMIT_WINDOW
               /\ \A i \in 1..Len(seq) : \A j \in i..Len(seq) : seq[i] <= seq[j]
               /\ Len(seq) <= RATE_LIMIT_MAX
               /\ Stamps(seq) \subseteq Stamps(was) \cup {now}
               /\ \A t \in Stamps(was) \ Stamps(seq) : now - t >= RATE_LIMIT_WINDOW
               /\ \A ip \in (DOMAIN ipStore) \ {last'.ip} :
                     ip \in DOMAIN ipStore' /\ ipStore'[ip] = ipStore[ip] ]_vars

\* a full stored sequence had expired: the call dropped all of it and stored
\* its own time
C17_Witness ==
    /\ last.op = "call" /\ last.ip = IP_A /\ last.allowed
    /\ Len(last.storedBefore) = RATE_LIMIT_MAX
    /\ ipStore[IP_A] = <<now>>

\* the number of admissions a log holds
RECURSIVE LogTotal(_)
LogTotal(log) == IF log = <<>> THEN 0 ELSE Head(log).n + LogTotal(Tail(log))

\* the requests admitted at a time t, T - 24 hours < t <= T
AdmittedInDay(T) ==
    LogTotal(SelectSeq(dayLog, LAMBDA e : T - DAY_MS < e.t /\ e.t <= T))

\* C18 as stated: no more than DAILY_GLOBAL_CAP requests in total are admitted
\* within any period of 24 hours.
C18_HardCeiling == AdmittedInDay(now) <= DAILY_GLOBAL_CAP

\* C18 as amended: no more than DAILY_GLOBAL_CAP requests are admitted between
\* one reset of the counter and the next, and a reset comes more than 24 hours
\* after the one before, so a period of 24 hours holds at most twice the cap.
C18_CapPerCountingDay ==
    /\ tally <= DAILY_GLOBAL_CAP
    /\ AdmittedInDay(now) <= 2 * DAILY_GLOBAL_CAP

\* the cap was used up right before a reset and again right after it
C18_Witness ==
    /\ tally = DAILY_GLOBAL_CAP /\ AdmittedInDay(now) = 2 * DAILY_GLOBAL_CAP
    /\ last.op = "call" /\ last.allowed

\* the invocations suspended at an await that were admitted
AdmittedInFlight ==
    { s \in Slots : inflight[s].pc # "idle" /\ inflight[s].allowed }

\* C19: under any interleaving of generation-handler invocations at their
\* awaits, the global counter equals the number of requests admitted since
\* the last reset and is at most DAILY_GLOBAL_CAP, and concurrent requests are
\* never admitted against the same last per-identifier or global slot: every
\* admitted invocation in flight is counted, and no identifier has more than
\* RATE_LIMIT_MAX admitted requests in the trailing window.
C19_AtomicCheckAndRecord ==
    /\ dailyCount = tally
    /\ dailyCount <= DAILY_GLOBAL_CAP
    /\ Cardinality(AdmittedInFlight) <= tally
    /\ \A ip \in Idents : Cardinality(AdmittedWithin(ip, now)) <= RATE_LIMIT_MAX
    /\ \A ip \in Idents :
          Cardinality(AdmittedWithin(ip, now)) <= Len(StoreGet(ipStore, ip))

\* the last admission of the day went to a request that is still awaiting the
\* upstream call, and a request that arrived meanwhile was refused
C19_Witness ==
    /\ inflight[1].pc = "fetching" /\ inflight[1].allowed
    /\ dailyCount = DAILY_GLOBAL_CAP
    /\ out.status = 429 /\ out.body.value = DAILY_REASON

\* the step ends an invocation of the generation handler with this status
Answers(code) ==
    out'.endpoint = "generate" /\ out'.pc = "done" /\ out'.status = code

\* C20: admission is recorded before any other check of a POST: a request
\* that was admitted and then fails with 400, 500 or 502 has appended its
\* timestamp and incremented the counter, the record is never rolled back,
\* and so an identifier whose RATE_LIMIT_MAX requests of the window all
\* failed gets 429 for its next POST, valid or not.
C20_AdmissionRecordedFirst ==
    [][ /\ (Answers(400) \/ Answers(500))
             => /\ last'.op = "call" /\ last'.allowed /\ last'.ip = out'.ip
                /\ Len(StoreGet(ipStore', out'.ip)) = Len(History(out'.ip)) + 1
                /\ now \in Stamps(StoreGet(ipStore', out'.ip))
                /\ dailyCount' = CountSeen + 1
        /\ Answers(502)
             => /\ out'.allowed /\ ~IsCall
                /\ Stamps(StoreGet(ipStore, out'.ip)) # {}
                /\ ipStore' = ipStore /\ dailyCount' = dailyCount
        /\ ~IsCall => ipStore' = ipStore /\ dailyCount' = dailyCount
        /\ IsCall
             => /\ dailyCount' >= CountSeen
                /\ \A ip \in DOMAIN ipStore :
                      /\ ip \in DOMAIN ipStore'
                      /\ \A t \in Stamps(ipStore[ip]) :
                            now - t < RATE_LIMIT_WINDOW
                              => t \in Stamps(ipStore'[ip])
        /\ (IsCall /\ Len(History(last'.ip)) = RATE_LIMIT_MAX)
             => Answers(429) /\ out'.ip = last'.ip ]_vars

\* three POSTs of one identifier were admitted and every one of them failed
\* (the generation API is down); its next POST was answered 429
C20_Witness ==
    /\ out.endpoint = "generate" /\ out.status = 429 /\ out.ip = IP_A
    /\ Len(admitted[IP_A]) = RATE_LIMIT_MAX /\ tally = RATE_LIMIT_MAX
    /\ last.op = "call" /\ Len(last.reason) = 7

=============================================================================
